---------------------------- MODULE Spec2Model ----------------------------
(* A model of export_dashboard.py: the loader/normaliser (load_data), the   *)
(* country-code resolver (get_iso_a3), the growth-rate helper               *)
(* (calculate_growth_rate), the top-N selection (DataFrame.nlargest as the  *)
(* chart/table helpers call it) and the script run (main).                  *)
(*                                                                          *)
(* A cell of a table is a record: a text (t = "str"), a number             *)
(* (t = "num") or the missing marker NaN (t = "nan").  Every text that can  *)
(* occur in a cell is spelled out character by character (Spell), so that   *)
(* the substring search of the header check and the digit parsing of the    *)
(* numeric coercion are computed on the characters, not assumed.  Numbers   *)
(* are integers: the sources hold decimal values, but no operation          *)
(* modelled here depends on a fractional part.                              *)
EXTENDS Integers, Sequences, FiniteSets, TLC

VARIABLES
    commodity_file,        \* 'ekspor_non_migas_komoditi.csv' on disk
    country_file,          \* 'ekspor_non_migas_negara_english.csv' on disk
    PYCOUNTRY_AVAILABLE,   \* set once at import time
    quicksort,             \* where the build's default sort leaves equal keys
    cache,                 \* the st.cache_data memo of load_data
    run,                   \* what the last run of main() did
    call,                  \* arguments of a helper call under check
    ret                    \* its result

vars ==
    <<commodity_file, country_file, PYCOUNTRY_AVAILABLE, quicksort, cache, run, call, ret>>

-----------------------------------------------------------------------------
(* Bounds of the model *)

\* most data rows in a source file
MaxRows == 2
\* most rows of a table handed to the top-N selection
MaxLen == 3
\* largest cell value / operand drawn for the helpers
MaxVal == 3

-----------------------------------------------------------------------------
(* Cells and text *)

Str(s) == [t |-> "str", s |-> s, v |-> 0]
Num(v) == [t |-> "num", s |-> "", v |-> v]
NaN    == [t |-> "nan", s |-> "", v |-> 0]

\* pd.isna / Series.dropna's test
isna(c) == c.t = "nan"

\* the characters of every text a cell of the model can hold
Spell ==
    [s \in {"HS", "URAIAN", "CLOTHS", "COAL", "PALM OIL", "UNITED STATES", "JAPAN",
            "nan", "n/a", "-5", "0", "15", "27", "61", "100", "150", "180",
            "200", "250", "300", "2020", "2021", "2022", "2023", "2024"} |->
        CASE s = "HS"            -> <<"H", "S">>
          [] s = "URAIAN"        -> <<"U", "R", "A", "I", "A", "N">>
          [] s = "CLOTHS"        -> <<"C", "L", "O", "T", "H", "S">>
          [] s = "COAL"          -> <<"C", "O", "A", "L">>
          [] s = "PALM OIL"      -> <<"P", "A", "L", "M", " ", "O", "I", "L">>
          [] s = "UNITED STATES" -> <<"U", "N", "I", "T", "E", "D", " ", "S", "T", "A", "T", "E", "S">>
          [] s = "JAPAN"         -> <<"J", "A", "P", "A", "N">>
          [] s = "nan"           -> <<"n", "a", "n">>
          [] s = "n/a"           -> <<"n", "/", "a">>
          [] s = "-5"            -> <<"-", "5">>
          [] s = "0"             -> <<"0">>
          [] s = "15"            -> <<"1", "5">>
          [] s = "27"            -> <<"2", "7">>
          [] s = "61"            -> <<"6", "1">>
          [] s = "100"           -> <<"1", "0", "0">>
          [] s = "150"           -> <<"1", "5", "0">>
          [] s = "180"           -> <<"1", "8", "0">>
          [] s = "200"           -> <<"2", "0", "0">>
          [] s = "250"           -> <<"2", "5", "0">>
          [] s = "300"           -> <<"3", "0", "0">>
          [] s = "2020"          -> <<"2", "0", "2", "0">>
          [] s = "2021"          -> <<"2", "0", "2", "1">>
          [] s = "2022"          -> <<"2", "0", "2", "2">>
          [] s = "2023"          -> <<"2", "0", "2", "3">>
          [] s = "2024"          -> <<"2", "0", "2", "4">>]

Digits == {"0", "1", "2", "3", "4", "5", "6", "7", "8", "9"}

DigitVal(d) ==
    CASE d = "0" -> 0 [] d = "1" -> 1 [] d = "2" -> 2 [] d = "3" -> 3
      [] d = "4" -> 4 [] d = "5" -> 5 [] d = "6" -> 6 [] d = "7" -> 7
      [] d = "8" -> 8 [] d = "9" -> 9

\* the substring search behind Series.str.contains for a literal pattern
Contains(chars, pat) ==
    \E i \in 1..(Len(chars) - Len(pat) + 1) :
        SubSeq(chars, i, i + Len(pat) - 1) = pat

RECURSIVE DigitsValue(_)
DigitsValue(chars) ==
    IF chars = <<>> THEN 0
    ELSE 10 * DigitsValue(SubSeq(chars, 1, Len(chars) - 1)) + DigitVal(chars[Len(chars)])

AllDigits(chars) == chars # <<>> /\ \A i \in 1..Len(chars) : chars[i] \in Digits

\* does the text parse as a number (an optional sign, then digits)
IsNumeral(chars) ==
    \/ AllDigits(chars)
    \/ Len(chars) > 1 /\ chars[1] = "-" /\ AllDigits(Tail(chars))

NumeralValue(chars) ==
    IF chars[1] = "-" THEN 0 - DigitsValue(Tail(chars)) ELSE DigitsValue(chars)

\* Series.astype(str) on one cell of a frame as read_csv returns it
AsStr(c) == IF isna(c) THEN "nan" ELSE c.s

\* pd.to_numeric(..., errors='ignore') on one cell: a failed parse keeps the text
ToNumericIgnore(c) ==
    CASE c.t = "str" ->
            IF IsNumeral(Spell[c.s]) THEN Num(NumeralValue(Spell[c.s])) ELSE c
      [] OTHER -> c

\* pd.to_numeric(..., errors='coerce') on one cell
ToNumeric(c) ==
    CASE c.t = "str" ->
            IF IsNumeral(Spell[c.s]) THEN Num(NumeralValue(Spell[c.s])) ELSE NaN
      [] OTHER -> c

Range(f) == {f[x] : x \in DOMAIN f}

-----------------------------------------------------------------------------
(* Frames and source files *)

\* a pandas DataFrame: its column labels and its rows of cells
DataFrame(columns, rows) == [none |-> FALSE, columns |-> columns, rows |-> rows]

\* Python's None where a DataFrame is expected
None == [none |-> TRUE, columns |-> <<>>, rows |-> <<>>]

\* a CSV file on disk: a header line and rows of raw fields ("" is an empty field)
CsvFile(columns, rows) == [kind |-> "csv", columns |-> columns, rows |-> rows]
\* no file at the path: pd.read_csv raises FileNotFoundError
MissingFile == [kind |-> "missing", columns |-> <<>>, rows |-> <<>>]
\* a file pd.read_csv cannot parse: it raises ParserError
GarbledFile == [kind |-> "garbled", columns |-> <<>>, rows |-> <<>>]

\* pd.read_csv on a readable file: an empty field is read as NaN; the other
\* fields keep their text until the coercion step (a column read_csv already
\* inferred as numeric holds the numbers to_numeric gives for the same text)
read_csv(file) ==
    DataFrame(file.columns,
              [i \in DOMAIN file.rows |->
                  [j \in DOMAIN file.rows[i] |->
                      IF file.rows[i][j] = "" THEN NaN ELSE Str(file.rows[i][j])]])

\* the column of a frame under a label (labels are distinct in every frame of
\* the model: no source column carries a canonical name)
ColumnIndex(df, col) == CHOOSE j \in DOMAIN df.columns : df.columns[j] = col

HasColumn(df, col) == \E j \in DOMAIN df.columns : df.columns[j] = col

-----------------------------------------------------------------------------
(* load_data *)

commodity_columns ==
    ("HS" :> "hs_code") @@ ("URAIAN" :> "description") @@
    ("2020" :> "export_value_2020") @@ ("2021" :> "export_value_2021") @@
    ("2022" :> "export_value_2022") @@ ("2023" :> "export_value_2023") @@
    ("2024" :> "export_value_2024") @@
    ("Trend (%)  2020 -  2024" :> "trend_percentage_2020_2024") @@
    ("Perub (%)  2024 -  2023" :> "change_percentage_2024_2023") @@
    ("Peran (%)  2024" :> "role_percentage_2024") @@
    ("Jan-Mei" :> "export_value_jan_may_2024") @@
    ("Jan-Mei.1" :> "export_value_jan_may_2025") @@
    ("Perub (%)  2025/  2024" :> "change_percentage_jan_may_2025_2024") @@
    ("Peran (%)  2025" :> "role_percentage_2025")

country_columns ==
    ("COUNTRY" :> "country") @@
    ("2020" :> "export_value_2020") @@ ("2021" :> "export_value_2021") @@
    ("2022" :> "export_value_2022") @@ ("2023" :> "export_value_2023") @@
    ("2024" :> "export_value_2024") @@
    ("Trend (%) 2020 -  2024" :> "trend_percentage_2020_2024") @@
    ("Perub (%) 2024 -  2023" :> "change_percentage_2024_2023") @@
    ("Peran (%) 2024" :> "role_percentage_2024") @@
    ("Jan-Mei" :> "export_value_jan_may_2024") @@
    ("Jan-Mei.1" :> "export_value_jan_may_2025") @@
    ("Perub (%) 2025/  2024" :> "change_percentage_jan_may_2025_2024") @@
    ("Peran (%) 2025" :> "role_percentage_2025")

\* 'export_value' in col, for the labels a frame of the model can carry
HasExportValue(col) ==
    col \in {"export_value_2020", "export_value_2021", "export_value_2022",
             "export_value_2023", "export_value_2024",
             "export_value_jan_may_2024", "export_value_jan_may_2025"}

\* 'percentage' in col, for the labels a frame of the model can carry
HasPercentage(col) ==
    col \in {"trend_percentage_2020_2024", "change_percentage_2024_2023",
             "role_percentage_2024", "change_percentage_jan_may_2025_2024",
             "role_percentage_2025"}

\* the markers 'HS|URAIAN' of the header check, spelled out
HeaderTokens == {<<"H", "S">>, <<"U", "R", "A", "I", "A", "N">>}

\* df.iloc[0].astype(str).str.contains('HS|URAIAN').any()
HeaderArtifact(df) ==
    \E j \in DOMAIN df.rows[1] :
        \E tok \in HeaderTokens : Contains(Spell[AsStr(df.rows[1][j])], tok)

\* a header check that looks at every row, not only the first
DropHeaderArtifactAnyRow(df) ==
    LET keep(row) == ~ \E j \in DOMAIN row :
                          \E tok \in HeaderTokens : Contains(Spell[AsStr(row[j])], tok)
    IN  [df EXCEPT !.rows = SelectSeq(@, keep)]

\* if <first row holds a header token>: df = df.iloc[1:].copy()
DropHeaderArtifact(df) ==
    IF HeaderArtifact(df) THEN [df EXCEPT !.rows = Tail(@)] ELSE df

\* a rename that keeps only the columns the lookup table lists
RenameMappedOnly(df, mapping) ==
    LET idx == SelectSeq([j \in DOMAIN df.columns |-> j],
                         LAMBDA j : df.columns[j] \in DOMAIN mapping)
    IN  [df EXCEPT !.columns = [k \in DOMAIN idx |-> mapping[df.columns[idx[k]]]],
                   !.rows = [i \in DOMAIN df.rows |->
                                [k \in DOMAIN idx |-> df.rows[i][idx[k]]]]]

\* df.rename(columns=mapping, inplace=True)
Rename(df, mapping) ==
    [df EXCEPT !.columns =
        [j \in DOMAIN df.columns |->
            IF df.columns[j] \in DOMAIN mapping THEN mapping[df.columns[j]]
            ELSE df.columns[j]]]

\* [col for col in commodity_columns.values()
\*      if 'export_value' in col or 'percentage' in col]
numeric_cols ==
    {col \in Range(commodity_columns) : HasExportValue(col) \/ HasPercentage(col)}

\* for col in numeric_cols: if col in df.columns:
\*     df[col] = pd.to_numeric(df[col], errors='coerce')
CoerceNumeric(df) ==
    [df EXCEPT !.rows =
        [i \in DOMAIN df.rows |->
            [j \in DOMAIN df.rows[i] |->
                IF df.columns[j] \in numeric_cols THEN ToNumeric(df.rows[i][j])
                ELSE df.rows[i][j]]]]

\* what load_data returns, and the message it passes to st.error ("" for none)
LoadResult(df_commodity, df_country, error) ==
    [df_commodity |-> df_commodity, df_country |-> df_country, error |-> error]

\* the commodity half of the try block
LoadCommodity(file) ==
    CoerceNumeric(Rename(DropHeaderArtifact(read_csv(file)), commodity_columns))

\* the country half of the try block: no header check is made on this source
LoadCountry(file) ==
    CoerceNumeric(Rename(read_csv(file), country_columns))

\* a load_data whose except branch hands back what was read so far
load_data_partial(cfile, kfile) ==
    IF cfile.kind # "csv" \/ cfile.rows = <<>> THEN LoadResult(None, None, "Error")
    ELSE IF kfile.kind # "csv"
         THEN LoadResult(LoadCommodity(cfile), DataFrame(<<>>, <<>>), "Error")
         ELSE LoadResult(LoadCommodity(cfile), LoadCountry(kfile), "")

\* load_data: any exception of the try block (a file that is absent or cannot
\* be parsed, iloc[0] on a commodity frame without rows) ends in (None, None)
load_data(cfile, kfile) ==
    IF cfile.kind = "missing" THEN LoadResult(None, None, "FileNotFoundError")
    ELSE IF cfile.kind = "garbled" THEN LoadResult(None, None, "ParserError")
    ELSE IF cfile.rows = <<>> THEN LoadResult(None, None, "IndexError")
    ELSE IF kfile.kind = "missing" THEN LoadResult(None, None, "FileNotFoundError")
    ELSE IF kfile.kind = "garbled" THEN LoadResult(None, None, "ParserError")
    ELSE LoadResult(LoadCommodity(cfile), LoadCountry(kfile), "")

-----------------------------------------------------------------------------
(* get_iso_a3 *)

\* the result None of get_iso_a3, which otherwise returns a 3-letter code
NoCode == "<None>"

country_mapping ==
    ("REPUBLIC OF CHINA" :> "CHN") @@ ("UNITED STATES" :> "USA") @@
    ("SOUTH KOREA" :> "KOR") @@ ("UNITED KINGDOM" :> "GBR") @@
    ("RUSSIAN FEDERATION" :> "RUS") @@ ("CZECH REPUBLIC" :> "CZE") @@
    ("BOLIVIA" :> "BOL") @@ ("VENEZUELA" :> "VEN") @@ ("IRAN" :> "IRN") @@
    ("LAO PEOPLE'S DEMOCRATIC REPUBLIC" :> "LAO") @@ ("MOLDOVA" :> "MDA") @@
    ("SYRIA" :> "SYR") @@ ("TANZANIA" :> "TZA") @@ ("VIETNAM" :> "VNM") @@
    ("BRUNEI DARUSSALAM" :> "BRN") @@ ("CABO VERDE" :> "CPV") @@
    ("CONGO" :> "COG") @@ ("DEMOCRATIC REPUBLIC OF THE CONGO" :> "COD") @@
    ("EGYPT" :> "EGY") @@ ("GAMBIA" :> "GMB") @@ ("GUINEA BISSAU" :> "GNB") @@
    ("SAO TOME AND PRINCIPE" :> "STP") @@ ("SWAZILAND" :> "SWZ") @@
    ("UNITED ARAB EMIRATES" :> "ARE") @@ ("YEMEN" :> "YEM") @@
    ("NORTH MACEDONIA" :> "MKD") @@ ("PALESTINE" :> "PSE") @@
    ("KOREA, DEMOCRATIC PEOPLE'S REPUBLIC OF" :> "PRK")

\* how a call ends: with a value, or with an exception reaching the caller
Return(value) == [raised |-> "", value |-> value]
Raise(exception) == [raised |-> exception, value |-> NoCode]

\* pycountry.countries.search_fuzzy(name) is the library's: it answers with
\* its candidates' alpha_3 codes, best first, or raises LookupError
FuzzyFound(codes) == [raised |-> "", codes |-> codes]
FuzzyLookupError == [raised |-> "LookupError", codes |-> <<>>]

\* a get_iso_a3 without the try/except around the fuzzy lookup
get_iso_a3_uncaught(country_name, fuzzy) ==
    IF ~PYCOUNTRY_AVAILABLE THEN Return(NoCode)
    ELSE IF country_name \in DOMAIN country_mapping
         THEN Return(country_mapping[country_name])
         ELSE IF fuzzy.raised # "" THEN Raise(fuzzy.raised)
              ELSE Return(fuzzy.codes[1])

\* get_iso_a3(country_name); fuzzy is what search_fuzzy answers for the name
get_iso_a3(country_name, fuzzy) ==
    IF ~PYCOUNTRY_AVAILABLE THEN Return(NoCode)
    ELSE IF country_name \in DOMAIN country_mapping
         THEN Return(country_mapping[country_name])
         ELSE IF fuzzy.raised = "LookupError" THEN Return(NoCode)
              ELSE IF fuzzy.raised # "" THEN Raise(fuzzy.raised)
                   ELSE Return(fuzzy.codes[1])

-----------------------------------------------------------------------------
(* calculate_growth_rate *)

\* a float result: an exact fraction num/den in lowest terms with den > 0,
\* or one of IEEE's inf and nan (rounding is not modelled)
RECURSIVE Gcd(_, _)
Gcd(a, b) == IF b = 0 THEN a ELSE Gcd(b, a % b)

Abs(x) == IF x < 0 THEN 0 - x ELSE x

Fraction(num, den) ==
    LET g == Gcd(Abs(num), Abs(den))
        sign == IF den < 0 THEN 0 - 1 ELSE 1
    IN  [k |-> "finite", num |-> sign * (num \div g), den |-> sign * (den \div g)]

FloatInf == [k |-> "inf", num |-> 0, den |-> 0]
FloatNaN == [k |-> "nan", num |-> 0, den |-> 0]

\* ((current - previous) / previous) * 100 on numpy floats: a division by
\* zero gives inf (nan for 0/0), and a missing operand gives nan
GrowthArithmetic(current, previous) ==
    IF isna(current) \/ isna(previous) THEN FloatNaN
    ELSE IF previous.v = 0
         THEN (IF current.v = 0 THEN FloatNaN ELSE FloatInf)
         ELSE Fraction((current.v - previous.v) * 100, previous.v)

\* a calculate_growth_rate that guards only against a missing operand
calculate_growth_rate_no_zero_guard(current, previous) ==
    IF isna(previous) \/ isna(current) THEN Fraction(0, 1)
    ELSE GrowthArithmetic(current, previous)

\* calculate_growth_rate(current, previous)
calculate_growth_rate(current, previous) ==
    IF (~isna(previous) /\ previous.v = 0) \/ isna(previous) \/ isna(current)
    THEN Fraction(0, 1)
    ELSE GrowthArithmetic(current, previous)

-----------------------------------------------------------------------------
(* DataFrame.nlargest and the helpers that call it *)

Min(a, b) == IF a < b THEN a ELSE b

\* the positions of the rows of a table handed to the top-N selection
Positions == 1..MaxLen

\* the rankings of the positions: one for every order in which a sort that
\* is not stable can leave rows of equal value
Rankings ==
    {r \in [Positions -> Positions] : \A a, b \in Positions : r[a] = r[b] => a = b}

\* the ranking of a stable sort: equal values stay in their order in the frame
InPlace == [a \in Positions |-> a]

\* does row a come before row b in the descending order of the column:
\* larger values first, equal values as the ranking has them, and the rows
\* without a value last in their order in the frame
Before(df, j, rank, a, b) ==
    LET x == df.rows[a][j]
        y == df.rows[b][j]
    IN  IF isna(x) THEN isna(y) /\ a < b
        ELSE IF isna(y) THEN TRUE
        ELSE x.v > y.v \/ (x.v = y.v /\ rank[a] < rank[b])

\* the row positions of a frame in that order
RECURSIVE Ordered(_, _, _, _)
Ordered(df, j, rank, left) ==
    IF left = {} THEN <<>>
    ELSE LET first == CHOOSE a \in left : \A b \in left \ {a} : Before(df, j, rank, a, b)
         IN  <<first>> \o Ordered(df, j, rank, left \ {first})

\* df.nlargest(n, column): the first n rows in descending order of the
\* column; pandas puts the rows without a value after the others and takes
\* them too when fewer than n rows have one.  With n below the number of
\* rows pandas selects with a merge sort, which keeps equal values in their
\* order in the frame; with n at or above it pandas sorts the whole column
\* with sort_values and its default kind, quicksort, which does not promise
\* where equal values end up.
nlargest(df, n, column) ==
    LET j == ColumnIndex(df, column)
        rank == IF n >= Len(df.rows) THEN quicksort ELSE InPlace
        order == Ordered(df, j, rank, DOMAIN df.rows)
    IN  IF n <= 0 THEN [df EXCEPT !.rows = <<>>]
        ELSE [df EXCEPT !.rows = [k \in 1..Min(n, Len(order)) |-> df.rows[order[k]]]]

\* create_streamlit_bar_chart: the frame it charts and returns (top_data)
create_streamlit_bar_chart(data, value_col, label_col, top_n) ==
    nlargest(data, top_n, value_col)

\* create_data_table: the rows of the table it shows (display_data holds the
\* label and the value of each row of top_data)
create_data_table(data, value_col, label_col, top_n) ==
    LET top_data == nlargest(data, top_n, value_col)
        l == ColumnIndex(data, label_col)
        v == ColumnIndex(data, value_col)
    IN  DataFrame(<<label_col, value_col>>,
                  [i \in DOMAIN top_data.rows |->
                      <<top_data.rows[i][l], top_data.rows[i][v]>>])

\* create_donut_chart_with_total: the frame of the pie (top_data), or None
\* when the frame is empty or lacks the column
create_donut_chart_with_total(data, values_col, names_col, top_n) ==
    IF data.rows = <<>> \/ ~HasColumn(data, values_col) THEN None
    ELSE nlargest(data, top_n, values_col)

-----------------------------------------------------------------------------
(* The st.cache_data memo of load_data *)

NoCache == [filled |-> FALSE, value |-> LoadResult(None, None, "")]
\* a load_data without the st.cache_data decorator: nothing is held
Undecorated(value) == [filled |-> FALSE, value |-> value]

\* the memo after a call of the decorated load_data
Cached(value) == [filled |-> TRUE, value |-> value]

\* no helper call made yet
NoCall == [fn |-> "none"]
NoRun == [status |-> "none"]

-----------------------------------------------------------------------------
(* The source files the loader is checked on *)

SeqsUpTo(S, n) == UNION {[1..k -> S] : k \in 0..n}

CommoditySchemas ==
    { <<"HS", "URAIAN", "2023", "2024">>,
      <<"NOTE", "URAIAN", "2024", "Perub (%)  2024 -  2023">> }

\* a repeated header line, three data rows (one with a label that has "HS"
\* inside a word, one with a field that is no number and an empty field) and
\* a data row whose label is the text HS
CommodityRows ==
    { <<"HS", "URAIAN", "2023", "2024">>,
      <<"61", "CLOTHS", "100", "150">>,
      <<"27", "COAL", "200", "180">>,
      <<"15", "PALM OIL", "n/a", "">>,
      <<"", "HS", "0", "-5">> }

CountrySchemas ==
    { <<"COUNTRY", "2023", "2024">>,
      <<"COUNTRY", "2024", "Perub (%)  2024 -  2023">> }

CountryRows ==
    { <<"URAIAN", "2023", "2024">>,
      <<"UNITED STATES", "300", "n/a">>,
      <<"JAPAN", "", "250">> }

CommodityFiles ==
    {MissingFile, GarbledFile} \cup
    {CsvFile(c, r) : c \in CommoditySchemas, r \in SeqsUpTo(CommodityRows, MaxRows)}

CountryFiles ==
    {MissingFile, GarbledFile} \cup
    {CsvFile(c, r) : c \in CountrySchemas, r \in SeqsUpTo(CountryRows, MaxRows)}

-----------------------------------------------------------------------------
(* SpecLoad: load_data called on every pair of source files *)

InitLoad ==
    /\ commodity_file \in CommodityFiles
    /\ country_file \in CountryFiles
    /\ PYCOUNTRY_AVAILABLE = TRUE
    /\ quicksort = InPlace
    /\ cache = NoCache
    /\ run = NoRun
    /\ call = NoCall
    /\ ret = NoCall

\* a call of the cached load_data: the first call reads and normalises the
\* sources, a later call returns the memo (hit: the memo answered)
CallLoadData ==
    /\ call' = [fn |-> "load_data", hit |-> cache.filled]
    /\ IF cache.filled
       THEN /\ ret' = cache.value
            /\ UNCHANGED cache
       ELSE /\ ret' = load_data(commodity_file, country_file)
            /\ cache' = Cached(ret')
    /\ UNCHANGED <<commodity_file, country_file, PYCOUNTRY_AVAILABLE, quicksort, run>>

NextLoad == CallLoadData

SpecLoad == InitLoad /\ [][NextLoad]_vars

\* load_data has returned two tables
Loaded == call.fn = "load_data" /\ ~ret.df_commodity.none /\ ~ret.df_country.none

-----------------------------------------------------------------------------
(* Claims about load_data, checked under SpecLoad *)

\* the source file and the loaded table of each of the two sources
SourceFile(src) == IF src = "commodity" THEN commodity_file ELSE country_file
LoadedTable(src) == IF src = "commodity" THEN ret.df_commodity ELSE ret.df_country
Mapping(src) == IF src = "commodity" THEN commodity_columns ELSE country_columns
Sources == {"commodity", "country"}

\* the text of a raw field once read and cast to str (an empty field is NaN)
FieldText(text) == IF text = "" THEN "nan" ELSE text

\* a raw row holds a header token somewhere in a field
RowContainsToken(row) ==
    \E j \in DOMAIN row :
        \E tok \in HeaderTokens : Contains(Spell[FieldText(row[j])], tok)

\* a raw row has a field that is exactly a header token
RowHasTokenField(row) == \E j \in DOMAIN row : row[j] \in {"HS", "URAIAN"}

\* how many leading rows of the source the loaded table lacks
Dropped(src) == Len(SourceFile(src).rows) - Len(LoadedTable(src).rows)

\* the cell the canonical table is to hold for field j of raw row i of a
\* source: the text as read, a number or NaN under a numeric canonical name
ExpectedCell(src, i, j) ==
    LET f == SourceFile(src)
        text == f.rows[i][j]
        read == IF text = "" THEN NaN ELSE Str(text)
        name == IF f.columns[j] \in DOMAIN Mapping(src)
                THEN Mapping(src)[f.columns[j]] ELSE f.columns[j]
    IN  IF HasExportValue(name) \/ HasPercentage(name)
        THEN (IF text \in {"", "n/a", "HS", "URAIAN", "CLOTHS", "COAL", "PALM OIL",
                           "UNITED STATES", "JAPAN"}
              THEN NaN
              ELSE Num(CASE text = "-5" -> 0 - 5 [] text = "0" -> 0
                         [] text = "15" -> 15 [] text = "27" -> 27
                         [] text = "61" -> 61 [] text = "100" -> 100
                         [] text = "150" -> 150 [] text = "180" -> 180
                         [] text = "200" -> 200 [] text = "250" -> 250
                         [] text = "300" -> 300 [] text = "2020" -> 2020
                         [] text = "2021" -> 2021 [] text = "2022" -> 2022
                         [] text = "2023" -> 2023
                         [] text = "2024" -> 2024))
        ELSE read

\* C2 (as claimed): for either source, a first data row that holds a header
\* token is dropped by the load, so the canonical table has one row less than
\* the source and starts with the source's second row.
C2_HeaderRowDroppedInBothSources ==
    Loaded =>
        \A src \in Sources :
            (SourceFile(src).rows # <<>> /\ RowContainsToken(SourceFile(src).rows[1]))
                => Dropped(src) = 1

\* C3: in either source, every row at position 2 or later is kept by the
\* load, in its original relative order, also when it holds "HS" or "URAIAN":
\* at most the first row is missing from the canonical table, and row i >= 2
\* of the source is the table's row i less the number of rows dropped.
C3_LaterRowsRetained ==
    Loaded =>
        \A src \in Sources :
            /\ Dropped(src) \in {0, 1}
            /\ \A i \in 2..Len(SourceFile(src).rows) :
                   LoadedTable(src).rows[i - Dropped(src)] =
                       [j \in DOMAIN SourceFile(src).rows[i] |-> ExpectedCell(src, i, j)]

\* a load of a commodity source whose second row is the data row labelled HS
C3_Witness ==
    /\ Loaded
    /\ Len(commodity_file.rows) = 2
    /\ commodity_file.rows[2] = <<"", "HS", "0", "-5">>
    /\ Len(ret.df_commodity.rows) = 2
    /\ ret.df_commodity.rows[2][2] = Str("HS")

\* C4 (as claimed): a first data row is removed only when one of its fields
\* equals a header token; a first row none of whose fields equals "HS" or
\* "URAIAN" is kept, also when a field has "HS" inside a longer word.
C4_OnlyExactHeaderRowDropped ==
    Loaded =>
        \A src \in Sources :
            (SourceFile(src).rows # <<>> /\ ~RowHasTokenField(SourceFile(src).rows[1]))
                => Dropped(src) = 0

\* C5: after a successful load, in both tables every cell of a column whose
\* canonical name contains 'export_value' or 'percentage' is a number or NaN;
\* a field that does not parse is NaN (not zero, not its text), a field that
\* parses is its number, and every other cell is as it was read.
C5_NumericOrMissing ==
    Loaded =>
        \A src \in Sources :
            \A i \in DOMAIN LoadedTable(src).rows :
                \A j \in DOMAIN LoadedTable(src).columns :
                    LET cell == LoadedTable(src).rows[i][j]
                        name == LoadedTable(src).columns[j]
                    IN  /\ (HasExportValue(name) \/ HasPercentage(name))
                               => cell.t \in {"num", "nan"}
                        /\ cell = ExpectedCell(src, i + Dropped(src), j)

\* a load in which a field that is no number ("n/a") became NaN beside a
\* field that parsed, in a table that also holds a true zero
C5_Witness ==
    /\ Loaded
    /\ commodity_file.columns = <<"HS", "URAIAN", "2023", "2024">>
    /\ commodity_file.rows = << <<"15", "PALM OIL", "n/a", "">>, <<"", "HS", "0", "-5">> >>
    /\ ret.df_commodity.rows[1][3] = NaN
    /\ ret.df_commodity.rows[2][3] = Num(0)
    /\ \E i \in DOMAIN ret.df_country.rows : ret.df_country.rows[i][3] = NaN

\* C6: renaming changes only the names the lookup table lists: in both
\* tables a source column outside the table keeps its name and its cells, a
\* listed column carries the table's name, and the table has as many columns
\* as the source and as many rows as the source less the dropped header row.
C6_RenameKeepsUnmapped ==
    Loaded =>
        \A src \in Sources :
            LET f == SourceFile(src)
                df == LoadedTable(src)
            IN  /\ Len(df.columns) = Len(f.columns)
                /\ Dropped(src) \in {0, 1}
                /\ \A i \in DOMAIN df.rows : Len(df.rows[i]) = Len(f.columns)
                /\ \A j \in DOMAIN f.columns :
                       IF f.columns[j] \in DOMAIN Mapping(src)
                       THEN df.columns[j] = Mapping(src)[f.columns[j]]
                       ELSE /\ df.columns[j] = f.columns[j]
                            /\ \A i \in DOMAIN df.rows :
                                   df.rows[i][j] =
                                       (IF f.rows[i + Dropped(src)][j] = "" THEN NaN
                                        ELSE Str(f.rows[i + Dropped(src)][j]))

\* a load of sources that both carry a column the lookup tables do not list
C6_Witness ==
    /\ Loaded
    /\ commodity_file.columns[1] = "NOTE" /\ ret.df_commodity.columns[1] = "NOTE"
    /\ ret.df_commodity.columns[2] = "description"
    /\ country_file.columns[3] = "Perub (%)  2024 -  2023"
    /\ ret.df_country.columns[3] = "Perub (%)  2024 -  2023"
    /\ ret.df_commodity.rows # <<>> /\ ret.df_country.rows # <<>>

-----------------------------------------------------------------------------
(* SpecHelpers: the helper functions called on every input of a bounded set *)

\* names handed to get_iso_a3: the keys of the override table and others
CountryNames == DOMAIN country_mapping \cup {"JAPAN", "INDONESIA", "Atlantis"}

\* what the library may answer for a name
FuzzyAnswers ==
    { FuzzyLookupError,
      FuzzyFound(<<"JPN">>),
      FuzzyFound(<<"IDN", "IND">>),
      FuzzyFound(<<"UMI", "USA">>),
      FuzzyFound(<<"PRK", "KOR">>) }

\* operands of calculate_growth_rate: a total, or a missing value
GrowthOperands ==
    {NaN} \cup {Num(v) : v \in (0 - MaxVal)..MaxVal} \cup
    {Num(50), Num(100), Num(300), Num(330)}

\* frames handed to the top-N helpers: a label and one year's value per row
RowLabels == <<"A", "B", "C", "D", "E", "F">>
YearValues == {NaN} \cup {Num(v) : v \in 1..MaxVal}
TopNFrames ==
    { DataFrame(<<"description", "export_value_2024">>,
                [i \in DOMAIN vals |-> <<Str(RowLabels[i]), vals[i]>>]) :
        vals \in SeqsUpTo(YearValues, MaxLen) }
TopNCounts == 1..(MaxLen + 1)

\* the helpers that select the top rows of a frame
TopNHelpers ==
    {"create_streamlit_bar_chart", "create_data_table", "create_donut_chart_with_total"}

\* the calls under check
HelperCalls ==
    {[fn |-> "get_iso_a3", country_name |-> name, fuzzy |-> fuzzy] :
        name \in CountryNames, fuzzy \in FuzzyAnswers} \cup
    {[fn |-> "calculate_growth_rate", current |-> current, previous |-> previous] :
        current \in GrowthOperands, previous \in GrowthOperands} \cup
    {[fn |-> fn, data |-> data, top_n |-> top_n] :
        fn \in TopNHelpers,
        data \in TopNFrames, top_n \in TopNCounts}

InitHelpers ==
    /\ commodity_file = MissingFile
    /\ country_file = MissingFile
    /\ call \in HelperCalls
    /\ PYCOUNTRY_AVAILABLE \in IF call.fn = "get_iso_a3" THEN BOOLEAN ELSE {TRUE}
    /\ quicksort \in IF call.fn \in TopNHelpers THEN Rankings ELSE {InPlace}
    /\ cache = NoCache
    /\ run = NoRun
    /\ ret = NoCall

HelperFrame ==
    UNCHANGED <<commodity_file, country_file, PYCOUNTRY_AVAILABLE, quicksort, cache, run, call>>

CallGetIsoA3 ==
    /\ call.fn = "get_iso_a3"
    /\ ret' = get_iso_a3(call.country_name, call.fuzzy)
    /\ HelperFrame

CallCalculateGrowthRate ==
    /\ call.fn = "calculate_growth_rate"
    /\ ret' = calculate_growth_rate(call.current, call.previous)
    /\ HelperFrame

CallBarChart ==
    /\ call.fn = "create_streamlit_bar_chart"
    /\ ret' = create_streamlit_bar_chart(call.data, "export_value_2024",
                                         "description", call.top_n)
    /\ HelperFrame

CallDataTable ==
    /\ call.fn = "create_data_table"
    /\ ret' = create_data_table(call.data, "export_value_2024",
                                "description", call.top_n)
    /\ HelperFrame

CallDonutChart ==
    /\ call.fn = "create_donut_chart_with_total"
    /\ ret' = create_donut_chart_with_total(call.data, "export_value_2024",
                                            "description", call.top_n)
    /\ HelperFrame

NextHelpers ==
    \/ CallGetIsoA3
    \/ CallCalculateGrowthRate
    \/ CallBarChart
    \/ CallDataTable
    \/ CallDonutChart

SpecHelpers == InitHelpers /\ [][NextHelpers]_vars

-----------------------------------------------------------------------------
(* Claims about the helpers, checked under SpecHelpers *)

\* the call under check has returned
Returned == ret # NoCall

\* C7 (as claimed): for every name that is a key of the override table,
\* get_iso_a3 returns the table's code, whatever the fuzzy lookup would
\* answer and whether or not the lookup library is available.
C7_OverrideTableFirst ==
    (Returned /\ call.fn = "get_iso_a3" /\ call.country_name \in DOMAIN country_mapping)
        => ret = Return(country_mapping[call.country_name])

\* C8: for every name outside the override table, get_iso_a3 returns the
\* first fuzzy candidate's code when the library is available and finds one,
\* returns None when the lookup finds no match or the library is
\* unavailable, and never ends with an exception.
C8_FuzzyFallbackOrNone ==
    (Returned /\ call.fn = "get_iso_a3" /\ call.country_name \notin DOMAIN country_mapping)
        => /\ ret.raised = ""
           /\ (PYCOUNTRY_AVAILABLE /\ call.fuzzy.raised = "")
                  => ret.value = call.fuzzy.codes[1]
           /\ (~PYCOUNTRY_AVAILABLE \/ call.fuzzy.raised = "LookupError")
                  => ret.value = NoCode

\* a name outside the table for which the lookup raised LookupError, with
\* the library available, resolved to None
C8_Witness ==
    /\ Returned /\ call.fn = "get_iso_a3" /\ call.country_name = "Atlantis"
    /\ PYCOUNTRY_AVAILABLE /\ call.fuzzy = FuzzyLookupError
    /\ ret = Return(NoCode)

\* C9: calculate_growth_rate(current, previous) is
\* (current - previous) / previous * 100 when previous is not zero and both
\* operands are present, and 0 when previous is zero or an operand is
\* missing; the result is always finite ((100, 50) gives 100, (330, 300) 10).
C9_GrowthRate ==
    (Returned /\ call.fn = "calculate_growth_rate") =>
        LET c == call.current
            p == call.previous
        IN  /\ ret.k = "finite" /\ ret.den > 0
            /\ IF ~isna(c) /\ ~isna(p) /\ p.v # 0
               THEN ret.num * p.v = (c.v - p.v) * 100 * ret.den
               ELSE ret.num = 0
            /\ (c = Num(100) /\ p = Num(50)) => (ret.num = 100 /\ ret.den = 1)
            /\ (c = Num(330) /\ p = Num(300)) => (ret.num = 10 /\ ret.den = 1)

\* the call (50, 0), answered with 0
C9_Witness ==
    /\ Returned /\ call.fn = "calculate_growth_rate"
    /\ call.current = Num(50) /\ call.previous = Num(0)
    /\ ret.k = "finite" /\ ret.num = 0

\* the calls of the top-N helpers
TopNCall ==
    Returned /\ call.fn \in TopNHelpers

\* the rows of a frame with a value in the year's column
WithValue(df, column) ==
    {i \in DOMAIN df.rows : ~isna(df.rows[i][ColumnIndex(df, column)])}

\* C10 (as claimed): the top-N selection of the charts and tables returns
\* exactly min(n, number of rows with a value for the year) rows, and no row
\* it returns lacks the year's value.
C10_TopNSkipsMissing ==
    TopNCall =>
        /\ Len(ret.rows) =
               Min(call.top_n, Cardinality(WithValue(call.data, "export_value_2024")))
        /\ \A i \in DOMAIN ret.rows : ~isna(ret.rows[i][2])

\* the position in the frame handed to the helper of a row it returned (every
\* row of these frames carries its own label)
PositionOf(row) ==
    CHOOSE i \in DOMAIN call.data.rows : call.data.rows[i][1] = row[1]

\* C11 (as claimed): the rows the top-N selection returns are in descending
\* order of the year's value, every returned value is at least every value
\* left out, and rows of equal value appear, and are chosen at the cut-off,
\* in their order in the table.
C11_TopNDescendingStable ==
    TopNCall =>
        LET data == call.data.rows
            at(k) == PositionOf(ret.rows[k])
            returned == {at(k) : k \in DOMAIN ret.rows}
            valued == WithValue(call.data, "export_value_2024")
        IN  /\ \A k, l \in DOMAIN ret.rows :
                   (k < l /\ at(k) \in valued /\ at(l) \in valued)
                       => \/ data[at(k)][2].v > data[at(l)][2].v
                          \/ data[at(k)][2].v = data[at(l)][2].v /\ at(k) < at(l)
            /\ \A i \in returned \cap valued, o \in valued \ returned :
                   \/ data[i][2].v > data[o][2].v
                   \/ data[i][2].v = data[o][2].v /\ i < o

-----------------------------------------------------------------------------
(* The aggregations of main and of the helpers it calls *)

\* df[col] as a sequence of cells
Column(df, col) == [i \in DOMAIN df.rows |-> df.rows[i][ColumnIndex(df, col)]]

\* Series.sum(): the cells without a value are skipped (an all-missing or
\* empty column sums to 0)
RECURSIVE SumCells(_)
SumCells(cells) ==
    IF cells = <<>> THEN 0
    ELSE (IF isna(Head(cells)) THEN 0 ELSE Head(cells).v) + SumCells(Tail(cells))

Sum(df, col) == SumCells(Column(df, col))

\* the cells of a column that hold a value
Values(df, col) == SelectSeq(Column(df, col), LAMBDA c : ~isna(c))

\* Series.mean(), Series.max(), Series.min(): NaN when no cell holds a value
Mean(df, col) ==
    IF Values(df, col) = <<>> THEN FloatNaN
    ELSE Fraction(Sum(df, col), Len(Values(df, col)))

Max(df, col) ==
    IF Values(df, col) = <<>> THEN NaN
    ELSE CHOOSE c \in Range(Values(df, col)) :
             \A d \in Range(Values(df, col)) : c.v >= d.v

MinOf(df, col) ==
    IF Values(df, col) = <<>> THEN NaN
    ELSE CHOOSE c \in Range(Values(df, col)) :
             \A d \in Range(Values(df, col)) : c.v <= d.v

\* df[df[label].isin(chosen)]
IsIn(df, label, chosen) ==
    [df EXCEPT !.rows =
        SelectSeq(@, LAMBDA row : row[ColumnIndex(df, label)] \in chosen)]

\* f'export_value_{year}'
ExportValueCol(year) ==
    CASE year = 2020 -> "export_value_2020"
      [] year = 2021 -> "export_value_2021"
      [] year = 2022 -> "export_value_2022"
      [] year = 2023 -> "export_value_2023"
      [] year = 2024 -> "export_value_2024"

\* what a stretch of the script did: the elements it put on the page, the
\* exception that ended it ("" for none), and whether create_world_map
\* assigned the column 'iso_a3' on the run's df_country
Ok(shown) == [raised |-> "", shown |-> shown, mapped |-> FALSE]
Fail(exception) == [raised |-> exception, shown |-> <<>>, mapped |-> FALSE]
Mapped(shown) == [raised |-> "", shown |-> shown, mapped |-> TRUE]

\* one stretch after another; an exception ends the run where it is raised
Then(first, second) ==
    IF first.raised # "" THEN first
    ELSE [raised |-> second.raised, shown |-> first.shown \o second.shown,
          mapped |-> first.mapped \/ second.mapped]

NoDelta == [k |-> "none", num |-> 0, den |-> 0]

\* pycountry.countries.search_fuzzy for the names of the sample sources
search_fuzzy(name) ==
    CASE name = "JAPAN" -> FuzzyFound(<<"JPN">>)
      [] name = "UNITED STATES" -> FuzzyFound(<<"USA", "UMI">>)
      [] OTHER -> FuzzyLookupError

\* create_stats_summary
create_stats_summary(data, current_year_col) ==
    Ok(<< [what |-> "stats", total |-> Sum(data, current_year_col),
           mean |-> Mean(data, current_year_col),
           max |-> Max(data, current_year_col),
           min |-> MinOf(data, current_year_col)] >>)

\* create_streamlit_line_chart: the total of each year, 0 for an absent column
create_streamlit_line_chart(data) ==
    Ok(<< [what |-> "line_chart",
           totals |-> [y \in 2020..2024 |->
                          IF HasColumn(data, ExportValueCol(y))
                          THEN Sum(data, ExportValueCol(y)) ELSE 0]] >>)

\* the frame create_world_map leaves behind: it assigns the column 'iso_a3'
\* on the frame it is handed (every country row of the model carries a name)
WithIsoA3(df_country) ==
    LET j == ColumnIndex(df_country, "country")
        code(row) == get_iso_a3(row[j].s, search_fuzzy(row[j].s)).value
    IN  [df_country EXCEPT
            !.columns = @ \o <<"iso_a3">>,
            !.rows = [i \in DOMAIN @ |->
                         @[i] \o <<IF code(@[i]) = NoCode THEN NaN ELSE Str(code(@[i]))>>]]

\* a create_world_map without the dropna on 'iso_a3': every row goes to the map
create_world_map_all_rows(df_country, year, highlighted_countries) ==
    IF ~PYCOUNTRY_AVAILABLE THEN Ok(<< [what |-> "warning", text |-> "pycountry"] >>)
    ELSE IF ~HasColumn(df_country, "country") THEN Fail("KeyError")
    ELSE LET df_map == WithIsoA3(df_country)
             highlight_df == IsIn(df_map, "country", highlighted_countries)
         IN  IF ~HasColumn(df_map, ExportValueCol(year))
             THEN Mapped(<< [what |-> "warning", text |-> "year not available"] >>)
             ELSE Mapped(<< [what |-> "map", rows |-> df_map.rows,
                         highlight |-> IF highlighted_countries # {}
                                       THEN highlight_df.rows ELSE <<>>] >>)

\* create_world_map, and st.plotly_chart of the figure when there is one
create_world_map(df_country, year, highlighted_countries) ==
    IF ~PYCOUNTRY_AVAILABLE THEN Ok(<< [what |-> "warning", text |-> "pycountry"] >>)
    ELSE IF ~HasColumn(df_country, "country") THEN Fail("KeyError")
    ELSE LET df == WithIsoA3(df_country)
             iso == ColumnIndex(df, "iso_a3")
             df_map == [df EXCEPT !.rows = SelectSeq(@, LAMBDA row : ~isna(row[iso]))]
             highlight_df == IsIn(df_map, "country", highlighted_countries)
         IN  IF ~HasColumn(df_map, ExportValueCol(year))
             THEN Mapped(<< [what |-> "warning", text |-> "year not available"] >>)
             ELSE Mapped(<< [what |-> "map", rows |-> df_map.rows,
                         highlight |-> IF highlighted_countries # {}
                                       THEN highlight_df.rows ELSE <<>>] >>)

\* a donut chart put on the page: px.pie needs the names column
ShowDonut(data, values_col, names_col, top_n) ==
    LET top_data == create_donut_chart_with_total(data, values_col, names_col, top_n)
    IN  IF top_data.none THEN Ok(<< [what |-> "warning", text |-> "no data"] >>)
        ELSE IF ~HasColumn(data, names_col) THEN Fail("ValueError")
        ELSE Ok(<< [what |-> "donut", rows |-> top_data.rows,
                    total |-> Sum(top_data, values_col)] >>)

\* a bar chart put on the page: set_index needs the label column
ShowBarChart(data, value_col, label_col, top_n) ==
    IF ~HasColumn(data, value_col) \/ ~HasColumn(data, label_col) THEN Fail("KeyError")
    ELSE Ok(<< [what |-> "bar_chart",
                rows |-> create_streamlit_bar_chart(data, value_col, label_col, top_n).rows] >>)

\* a data table put on the page
ShowDataTable(data, value_col, label_col, top_n) ==
    IF ~HasColumn(data, value_col) \/ ~HasColumn(data, label_col) THEN Fail("KeyError")
    ELSE Ok(<< [what |-> "table",
                rows |-> create_data_table(data, value_col, label_col, top_n).rows] >>)

\* a total card of the Overview: df[current_year_col].sum(), with the growth
\* on the year before when there is a year before and its column is present
TotalCard(df, selected_year) ==
    LET cur == ExportValueCol(selected_year)
        prev == ExportValueCol(selected_year - 1)
    IN  IF ~HasColumn(df, cur) THEN Fail("KeyError")
        ELSE Ok(<< [what |-> "metric", value |-> Sum(df, cur),
                    delta |-> IF selected_year > 2020 /\ HasColumn(df, prev)
                              THEN calculate_growth_rate(Num(Sum(df, cur)), Num(Sum(df, prev)))
                              ELSE NoDelta] >>)

CountCard(df) == Ok(<< [what |-> "count", value |-> Len(df.rows)] >>)

\* the Overview section
Overview(df_commodity, df_country, selected_year) ==
    LET cur == ExportValueCol(selected_year)
    IN  Then(TotalCard(df_commodity, selected_year),
        Then(TotalCard(df_country, selected_year),
        Then(CountCard(df_commodity),
        Then(CountCard(df_country),
        Then(create_streamlit_line_chart(df_commodity),
        Then(create_streamlit_line_chart(df_country),
        Then(ShowDonut(df_commodity, cur, "description", 10),
        Then(ShowDonut(df_country, cur, "country", 10),
             create_world_map(df_country, selected_year, {})))))))))

\* the Commodity Analysis section, after the sidebar's multiselect
CommodityAnalysis(df_commodity, selected_year, top_n, commodity_filter) ==
    LET cur == ExportValueCol(selected_year)
        filtered_df == IF commodity_filter # {}
                       THEN IsIn(df_commodity, "description", commodity_filter)
                       ELSE df_commodity
    IN  IF ~HasColumn(df_commodity, "description") THEN Fail("KeyError")
        ELSE IF HasColumn(filtered_df, cur) /\ filtered_df.rows # <<>>
        THEN Then(ShowDonut(filtered_df, cur, "description", top_n),
             Then(ShowBarChart(filtered_df, cur, "description", top_n),
             Then(create_stats_summary(filtered_df, cur),
                  ShowDataTable(filtered_df, cur, "description", top_n))))
        ELSE Ok(<< [what |-> "warning", text |-> "no data"] >>)

\* the Country Analysis section, after the sidebar's multiselect
CountryAnalysis(df_country, selected_year, top_n, country_filter) ==
    LET cur == ExportValueCol(selected_year)
        filtered_df == IF country_filter # {}
                       THEN IsIn(df_country, "country", country_filter)
                       ELSE df_country
    IN  IF ~HasColumn(df_country, "country") THEN Fail("KeyError")
        ELSE IF HasColumn(df_country, cur) /\ df_country.rows # <<>>
        THEN Then(ShowDonut(filtered_df, cur, "country", top_n),
             Then(create_world_map(df_country, selected_year, country_filter),
             Then(ShowBarChart(filtered_df, cur, "country", top_n),
             Then(create_stats_summary(filtered_df, cur),
                  ShowDataTable(filtered_df, cur, "country", top_n)))))
        ELSE Ok(<< [what |-> "warning", text |-> "no data"] >>)

\* the cards of the Comparative Analysis: the totals of the selected year
\* and the year before of both tables, computed before any card is shown
ComparedTotals(df_commodity, df_country, selected_year) ==
    LET cur == ExportValueCol(selected_year)
        prev == ExportValueCol(selected_year - 1)
        growth(df) == calculate_growth_rate(Num(Sum(df, cur)), Num(Sum(df, prev)))
    IN  IF \/ ~HasColumn(df_commodity, cur) \/ ~HasColumn(df_commodity, prev)
           \/ ~HasColumn(df_country, cur) \/ ~HasColumn(df_country, prev)
        THEN Fail("KeyError")
        ELSE Ok(<< [what |-> "metric", value |-> Sum(df_commodity, cur),
                    delta |-> growth(df_commodity)],
                   [what |-> "metric", value |-> Sum(df_commodity, prev), delta |-> NoDelta],
                   [what |-> "metric", value |-> Sum(df_country, cur),
                    delta |-> growth(df_country)],
                   [what |-> "metric", value |-> Sum(df_country, prev), delta |-> NoDelta] >>)

\* a growth banner that takes a growth of zero for growth
GrowthBannerFromZero(comm_growth) ==
    Ok(<< [what |-> "banner",
           text |-> IF comm_growth.k = "finite" /\ comm_growth.num >= 0
                    THEN "Positive Growth" ELSE "Decline Alert",
           growth |-> comm_growth] >>)

\* the growth banner under the cards
GrowthBanner(comm_growth) ==
    Ok(<< [what |-> "banner",
           text |-> IF comm_growth.k = "finite" /\ comm_growth.num > 0
                    THEN "Positive Growth" ELSE "Decline Alert",
           growth |-> comm_growth] >>)

\* a comparison chart: nlargest(10, current) and the label and two years of it
ComparisonChart(df, label_col, selected_year) ==
    LET cur == ExportValueCol(selected_year)
        prev == ExportValueCol(selected_year - 1)
        top == nlargest(df, 10, cur)
    IN  IF ~HasColumn(df, label_col) THEN Fail("KeyError")
        ELSE Ok(<< [what |-> "bar_chart",
                    rows |-> [i \in DOMAIN top.rows |->
                                 << top.rows[i][ColumnIndex(df, label_col)],
                                    top.rows[i][ColumnIndex(df, cur)],
                                    top.rows[i][ColumnIndex(df, prev)] >>]] >>)

\* the Comparative Analysis section
ComparativeAnalysis(df_commodity, df_country, selected_year) ==
    IF selected_year > 2020
    THEN LET cards == ComparedTotals(df_commodity, df_country, selected_year)
         IN  Then(cards,
             Then(GrowthBanner(cards.shown[1].delta),
             Then(ComparisonChart(df_commodity, "description", selected_year),
                  ComparisonChart(df_country, "country", selected_year))))
    ELSE Ok(<< [what |-> "warning", text |-> "select a year after 2020"] >>)

-----------------------------------------------------------------------------
(* Spec: runs of main() over sample sources *)

\* the sidebar's widgets
available_years == 2020..2024
AnalysisTypes == {"Overview", "Commodity Analysis", "Country Analysis", "Comparative Analysis"}
\* the slider's ends and its default
TopNChoices == {5, 10, 20}

\* the options of the multiselect of a section: the labels of its table
FilterOptions(loaded, analysis_type) ==
    CASE analysis_type = "Commodity Analysis"
             /\ HasColumn(loaded.df_commodity, "description")
           -> Range(Column(loaded.df_commodity, "description"))
      [] analysis_type = "Country Analysis" /\ HasColumn(loaded.df_country, "country")
           -> Range(Column(loaded.df_country, "country"))
      [] OTHER -> {}

\* a commodity source of five years: the repeated header line, then two rows
\* (totals 0, 200, 150, 300, 330)
FullCommodityFile ==
    CsvFile(<<"HS", "URAIAN", "2020", "2021", "2022", "2023", "2024">>,
            << <<"HS", "URAIAN", "2020", "2021", "2022", "2023", "2024">>,
               <<"27", "COAL", "0", "100", "150", "200", "180">>,
               <<"15", "PALM OIL", "", "100", "n/a", "100", "150">> >>)

\* a commodity source of one year whose first data row has HS inside a word
NarrowCommodityFile ==
    CsvFile(<<"NOTE", "URAIAN", "2024", "Perub (%)  2024 -  2023">>,
            << <<"61", "CLOTHS", "100", "150">>,
               <<"27", "COAL", "200", "180">>,
               <<"15", "PALM OIL", "n/a", "">> >>)

\* a commodity source with a header line and no data row
EmptyCommodityFile == CsvFile(<<"HS", "URAIAN", "2023", "2024">>, <<>>)

\* a commodity source whose label column has a heading the lookup table
\* does not list
UnlabelledCommodityFile ==
    CsvFile(<<"HS", "DESCRIPTION", "2024">>,
            << <<"27", "COAL", "200">>,
               <<"15", "PALM OIL", "150">> >>)

FullCountryFile ==
    CsvFile(<<"COUNTRY", "2020", "2021", "2022", "2023", "2024">>,
            << <<"UNITED STATES", "100", "150", "n/a", "300", "250">>,
               <<"JAPAN", "", "100", "200", "0", "250">> >>)

\* a country source of two years that starts with a repeated header line
NarrowCountryFile ==
    CsvFile(<<"COUNTRY", "2023", "2024">>,
            << <<"URAIAN", "2023", "2024">>,
               <<"UNITED STATES", "300", "n/a">>,
               <<"JAPAN", "", "250">> >>)

SampleCommodityFiles ==
    {MissingFile, GarbledFile, EmptyCommodityFile, FullCommodityFile, NarrowCommodityFile,
     UnlabelledCommodityFile}

SampleCountryFiles == {MissingFile, GarbledFile, FullCountryFile, NarrowCountryFile}

\* the orders a sort can leave the rows of these sources in: no table loaded
\* from them has more than three rows
SampleRankings == {r \in Rankings : \A a \in Positions : a > 3 => r[a] = a}

Init ==
    /\ commodity_file \in SampleCommodityFiles
    /\ country_file \in SampleCountryFiles
    /\ PYCOUNTRY_AVAILABLE \in BOOLEAN
    /\ quicksort \in SampleRankings
    /\ cache = NoCache
    /\ run = NoRun
    /\ call = NoCall
    /\ ret = NoCall

\* the section of main() that the radio button selects
Section(loaded, selected_year, analysis_type, top_n, chosen) ==
    CASE analysis_type = "Overview"
           -> Overview(loaded.df_commodity, loaded.df_country, selected_year)
      [] analysis_type = "Commodity Analysis"
           -> CommodityAnalysis(loaded.df_commodity, selected_year, top_n, chosen)
      [] analysis_type = "Country Analysis"
           -> CountryAnalysis(loaded.df_country, selected_year, top_n, chosen)
      [] analysis_type = "Comparative Analysis"
           -> ComparativeAnalysis(loaded.df_commodity, loaded.df_country, selected_year)

\* what load_data put on the page: its st.error when the try block failed
LoadShown(loaded) ==
    IF loaded.error # "" THEN << [what |-> "error", text |-> loaded.error] >> ELSE <<>>

\* one run of main() with the widgets as the user left them: load_data (from
\* the memo after the first run), the None check, then the selected section
Main(selected_year, analysis_type, top_n, chosen) ==
    LET loaded == IF cache.filled THEN cache.value
                  ELSE load_data(commodity_file, country_file)
    IN  /\ cache' = Cached(loaded)
        /\ IF loaded.df_commodity.none \/ loaded.df_country.none
           THEN /\ chosen = {}
                /\ run' = [status |-> "load_failed",
                           view |-> "",
                           shown |-> LoadShown(loaded) \o
                                     << [what |-> "error", text |-> "Failed to load data"] >>,
                           df_commodity |-> loaded.df_commodity,
                           df_country |-> loaded.df_country]
           ELSE /\ chosen \subseteq FilterOptions(loaded, analysis_type)
                /\ Cardinality(chosen) <= 1
                /\ LET section == Section(loaded, selected_year, analysis_type, top_n, chosen)
                   IN  run' = [status |-> IF section.raised = "" THEN "rendered"
                                          ELSE section.raised,
                               view |-> analysis_type,
                               selected_year |-> selected_year,
                               chosen |-> chosen,
                               shown |-> section.shown,
                               df_commodity |-> loaded.df_commodity,
                               df_country |-> IF section.mapped
                                              THEN WithIsoA3(loaded.df_country)
                                              ELSE loaded.df_country]
        /\ UNCHANGED <<commodity_file, country_file, PYCOUNTRY_AVAILABLE, quicksort, call, ret>>

\* the label cells a multiselect can offer
LabelCells == {Str(s) : s \in {"URAIAN", "CLOTHS", "COAL", "PALM OIL", "UNITED STATES", "JAPAN"}}

Next ==
    \E selected_year \in available_years, analysis_type \in AnalysisTypes,
       top_n \in TopNChoices, chosen \in {{}} \cup {{c} : c \in LabelCells} :
        Main(selected_year, analysis_type, top_n, chosen)

Spec == Init /\ [][Next]_vars

-----------------------------------------------------------------------------
(* Claims about main, checked under Spec *)

\* main() has run at least once
HasRun == run.status # "none"

\* C1: if either source file is absent or cannot be parsed, load_data returns
\* None for both tables, and whenever load_data returns a None table main
\* shows the load error and the failure message and returns: the run puts
\* no metric, chart, table or map on the page.
C1_NoAggregationAfterFailedLoad ==
    HasRun =>
        /\ (commodity_file.kind # "csv" \/ country_file.kind # "csv")
               => (cache.value.df_commodity = None /\ cache.value.df_country = None)
        /\ (cache.value.df_commodity.none \/ cache.value.df_country.none)
               => /\ run.status = "load_failed"
                  /\ run.shown # <<>>
                  /\ \A i \in DOMAIN run.shown : run.shown[i].what = "error"
                  /\ run.shown[Len(run.shown)].text = "Failed to load data"

\* a run over a readable commodity source and an absent country source
C1_Witness ==
    /\ commodity_file = FullCommodityFile
    /\ country_file = MissingFile
    /\ run.status = "load_failed"
    /\ run.shown = << [what |-> "error", text |-> "FileNotFoundError"],
                      [what |-> "error", text |-> "Failed to load data"] >>

\* the run got past the load: the widgets were read and a section was run
PastLoad == HasRun /\ run.status # "load_failed"

\* the table lacks the column of the year the selectbox holds
YearAbsent(df) == ~HasColumn(df, ExportValueCol(run.selected_year))

\* C12 (as claimed): every yearly total sums the year's column with a
\* missing cell counting as zero, and a table that lacks the selected year's
\* column is treated as all-missing: in every view of main the run ends
\* without an exception, and the trend chart shows the total 0 for the year.
C12_AbsentYearColumnTolerated ==
    PastLoad =>
        /\ (YearAbsent(cache.value.df_commodity) \/ YearAbsent(cache.value.df_country))
               => run.status = "rendered"
        /\ \A i \in DOMAIN run.shown :
               run.shown[i].what = "line_chart" =>
                   \A y \in available_years :
                       \/ run.shown[i].totals[y] = 0
                       \/ \E df \in {cache.value.df_commodity, cache.value.df_country} :
                              /\ HasColumn(df, ExportValueCol(y))
                              /\ run.shown[i].totals[y] = Sum(df, ExportValueCol(y))

\* C13 (as claimed): no operation of a run changes the tables load_data
\* returned: at the end of the run each has the columns, rows and cells it
\* had when load_data returned it.
C13_LoadedTablesNeverMutated ==
    PastLoad =>
        /\ run.df_commodity = cache.value.df_commodity
        /\ run.df_country = cache.value.df_country

-----------------------------------------------------------------------------
(* SpecCache: calls of load_data and reruns of main while the files on disk *)
(* change                                                                    *)

InitCache ==
    /\ commodity_file \in SampleCommodityFiles
    /\ country_file \in SampleCountryFiles
    /\ PYCOUNTRY_AVAILABLE = TRUE
    /\ quicksort = InPlace
    /\ cache = NoCache
    /\ run = NoRun
    /\ call = NoCall
    /\ ret = NoCall

\* the files load_data reads by name are replaced, edited or removed
ReplaceSources ==
    /\ commodity_file' \in SampleCommodityFiles
    /\ country_file' \in SampleCountryFiles
    /\ <<commodity_file', country_file'>> # <<commodity_file, country_file>>
    /\ UNCHANGED <<PYCOUNTRY_AVAILABLE, quicksort, cache, run, call, ret>>

\* a rerun of main with the widgets at their defaults
Rerun == Main(2024, "Overview", 10, {})

NextCache ==
    \/ CallLoadData
    \/ Rerun
    \/ ReplaceSources

SpecCache == InitCache /\ [][NextCache]_vars

\* a step that leaves the files on disk as they are: a call or a rerun
SourcesKept == commodity_file' = commodity_file /\ country_file' = country_file

\* C14: the first call of load_data reads and normalises the sources and
\* fills the memo; from then on the memo never changes, and every later
\* call, and every rerun of main, gets the memo's value whatever the files
\* on disk hold by then.
C14_LoadedOncePerKey ==
    [][ IF cache.filled
        THEN /\ cache' = cache
             /\ (call' # call \/ ret' # ret) => ret' = cache.value
             /\ run' # run => run'.df_commodity = cache.value.df_commodity
        ELSE SourcesKept =>
                 /\ cache'.filled
                 /\ cache'.value = load_data(commodity_file, country_file)
                 /\ (call' # call) => ret' = cache'.value
                 /\ run' # run => run'.df_commodity = cache'.value.df_commodity ]_vars

\* a later call answered from the memo although the files on disk would by
\* now load to something else
C14_Witness ==
    /\ call.fn = "load_data" /\ call.hit
    /\ ret = cache.value
    /\ ~ret.df_commodity.none
    /\ ret # load_data(commodity_file, country_file)

\* the elements of the run's page that are world maps
Maps == {i \in DOMAIN run.shown : run.shown[i].what = "map"}

\* the code get_iso_a3 gives the name of a country row
CodeOf(row) == get_iso_a3(row[1].s, search_fuzzy(row[1].s)).value

\* C15: every row of the data handed to the world map, and every row of the
\* overlay of highlighted countries, carries the code get_iso_a3 resolved its
\* name to; a row whose name is not resolved is in neither, and no row
\* carries a missing or made-up code.
C15_MapRowsResolved ==
    PastLoad =>
        \A i \in Maps :
            LET map == run.shown[i]
                iso == Len(run.df_country.columns)
                resolved(row) == /\ ~isna(row[iso])
                                 /\ CodeOf(row) # NoCode
                                 /\ row[iso] = Str(CodeOf(row))
            IN  /\ \A k \in DOMAIN map.rows : resolved(map.rows[k])
                /\ \A k \in DOMAIN map.highlight : resolved(map.highlight[k])
                /\ \A k \in DOMAIN run.df_country.rows :
                       CodeOf(run.df_country.rows[k]) = NoCode
                           => /\ run.df_country.rows[k] \notin Range(map.rows)
                              /\ run.df_country.rows[k] \notin Range(map.highlight)

\* a Country Analysis run over the source that starts with a repeated header
\* line: the row URAIAN is selected in the filter, resolves to no code and is
\* on neither the map nor the overlay, the two resolved rows are on the map
C15_Witness ==
    /\ PastLoad /\ run.view = "Country Analysis" /\ run.status = "rendered"
    /\ country_file = NarrowCountryFile
    /\ run.chosen = {Str("URAIAN")}
    /\ \E i \in Maps : Len(run.shown[i].rows) = 2 /\ run.shown[i].highlight = <<>>

\* the columns a loaded table needs to be used by main: its label column and
\* a value column of at least one year
RequiredColumns(df, label_col) ==
    /\ HasColumn(df, label_col)
    /\ \E y \in available_years : HasColumn(df, ExportValueCol(y))

\* C16 (as claimed): a readable source whose label column or year columns
\* cannot be identified after renaming aborts the load: load_data returns no
\* table lacking them, and main runs no section on such a table (it shows
\* the load failure).
C16_SchemaErrorAbortsLoad ==
    HasRun =>
        /\ ~cache.value.df_commodity.none
               => RequiredColumns(cache.value.df_commodity, "description")
        /\ ~cache.value.df_country.none
               => RequiredColumns(cache.value.df_country, "country")
        /\ (\/ ~RequiredColumns(run.df_commodity, "description")
            \/ ~RequiredColumns(run.df_country, "country"))
               => run.status = "load_failed"

\* the growth banners on the run's page
Banners == {i \in DOMAIN run.shown : run.shown[i].what = "banner"}

\* the commodity total of a year, as main sums it
CommodityTotal(year) == Sum(cache.value.df_commodity, ExportValueCol(year))

=============================================================================
